---- MODULE Spec2Model ----
(***************************************************************************)
(* A model of convertMavensHH.py: the log splitter, the chronological hand *)
(* loop, the per-hand line parser, pot resolution, showdown completion and *)
(* the per-table bookkeeping.                                              *)
(*                                                                         *)
(* Python dicts are modelled with the keys they hold: a record for a dict  *)
(* whose keys are field names (a round that has no "id" yet is a record    *)
(* without that field), and an insertion-ordered sequence of entries for a *)
(* dict keyed by data (hands, tables, pots, player wins, playerIds).       *)
(* An uncaught Python exception ends the run: pc = "aborted" and failure   *)
(* names the lookup that raised.                                           *)
(***************************************************************************)
EXTENDS Integers, Sequences, FiniteSets, TLC

(***************************************************************************)
(* Bounds of the model.                                                    *)
(***************************************************************************)
\* Spec: hands the splitter holds while it may still read a header line
MaxHeaders == 2
\* Spec: largest timestamp a header line carries
MaxTime == 2
\* Spec: seat lines, action-emitting lines and win lines of one hand, each
MaxShort == 1
\* seat lines per hand
MaxSeats == 2
\* SpecRounds: street-marker lines that open a round
MaxMarkers == 4
\* SpecRounds: post lines
MaxPosts == 1
\* SpecRounds: win lines
MaxWins == 2
\* SpecActions: action-emitting lines (post, add-on, deal, check, fold, bet, show)
MaxActionLines == 2
\* SpecActions: street-marker lines that open a round
MaxStreets == 1
\* SpecPots: win/split lines
MaxPotWins == 3
\* SpecPots: largest amount on a win line, in tenths
MaxTenths == 3

\* lines in the text of a hand whose text is fixed before the run
MaxLines == 4

\* lines in an input file whose lines are fixed before the run
MaxBufferLines == 2

(***************************************************************************)
(* Insertion-ordered dicts: a sequence of entries [k |-> key, v |-> value] *)
(***************************************************************************)
Keys(d) == [i \in 1..Len(d) |-> d[i].k]

Has(d, key) == \E i \in 1..Len(d) : d[i].k = key

Get(d, key) == d[CHOOSE i \in 1..Len(d) : d[i].k = key].v

\* d[key] = val: an existing key keeps its place, a new key goes last
Set(d, key, val) ==
    IF Has(d, key)
    THEN [i \in 1..Len(d) |-> IF d[i].k = key THEN [k |-> key, v |-> val] ELSE d[i]]
    ELSE Append(d, [k |-> key, v |-> val])

\* rec[key] = val on a dict whose keys are field names
Put(rec, key, val) == (key :> val) @@ rec

(***************************************************************************)
(* Python floats: IEEE-754 binary64, round-half-even.  A float is          *)
(* (hi * 2^27 + lo) * 2^e, the 53-bit significand split in two limbs so    *)
(* that every intermediate value fits TLC's 32-bit integers; zero is       *)
(* hi = lo = 0.                                                            *)
(***************************************************************************)
Limb == 2^27

FZero == [hi |-> 0, lo |-> 0, e |-> 0]

IsFZero(a) == a.hi = 0 /\ a.lo = 0

\* (hi, lo) + 1
Inc(hi, lo) == IF lo + 1 = Limb THEN <<hi + 1, 0>> ELSE <<hi, lo + 1>>

\* (hi, lo) shifted right by k bits (0 < k < 27), rounded half to even
ShiftRightRound(hi, lo, k) ==
    LET dropped == lo % (2^k)
        half    == 2^(k - 1)
        lo1     == (lo \div (2^k)) + (hi % (2^k)) * (2^(27 - k))
        hi1     == hi \div (2^k)
        up      == dropped > half \/ (dropped = half /\ lo1 % 2 = 1)
    IN  IF up THEN Inc(hi1, lo1) ELSE <<hi1, lo1>>

\* (hi, lo) shifted right by n bits (n >= 0), any dropped 1 kept in bit 0
RECURSIVE ShiftRightSticky(_, _, _)
ShiftRightSticky(hi, lo, n) ==
    IF n = 0 THEN <<hi, lo>>
    ELSE LET lo1 == (lo \div 2) + (hi % 2) * (2^26)
             st  == IF lo % 2 = 1 /\ lo1 % 2 = 0 THEN 1 ELSE 0
         IN  ShiftRightSticky(hi \div 2, lo1 + st, n - 1)

\* the number of bits by which hi exceeds 26 bits
RECURSIVE Excess(_)
Excess(hi) == IF hi < 2^26 THEN 0 ELSE 1 + Excess(hi \div 2)

\* the nearest float to the exact value (hi * 2^27 + lo) * 2^e, hi >= 2^25
Normalize(hi, lo, e) ==
    LET k == Excess(hi)
        r == IF k = 0 THEN <<hi, lo>> ELSE ShiftRightRound(hi, lo, k)
    IN  IF r[1] = 2^26
        THEN [hi |-> 2^25, lo |-> 0, e |-> e + k + 1]
        ELSE [hi |-> r[1], lo |-> r[2], e |-> e + k]

\* a + b of two non-negative floats
FAdd(a, b) ==
    IF IsFZero(a) THEN b
    ELSE IF IsFZero(b) THEN a
    ELSE LET big   == IF a.e >= b.e THEN a ELSE b
             small == IF a.e >= b.e THEN b ELSE a
             d     == big.e - small.e
             \* keep four bits below big's last bit; what lies lower is sticky
             pre   == IF d > 4 THEN d - 4 ELSE 0
             sm    == ShiftRightSticky(small.hi, small.lo, IF pre > 60 THEN 60 ELSE pre)
             dd    == d - pre
             blo   == big.lo * (2^dd)
             lo    == (blo % Limb) + sm[2]
             hi    == big.hi * (2^dd) + (blo \div Limb) + sm[1] + (lo \div Limb)
         IN  Normalize(hi, lo % Limb, small.e + pre)

\* the shift s with 2^52 <= (tenths / 10) * 2^s < 2^53
RECURSIVE FindShift(_, _)
FindShift(tenths, s) ==
    IF (tenths * (2^(s - 27))) \div 10 >= 2^25 THEN s ELSE FindShift(tenths, s + 1)

\* float(text) of a decimal literal, the literal given by its value in tenths
\* ("0.1" is 1, "2.0" is 20): the float nearest to tenths / 10
Float(tenths) ==
    IF tenths = 0 THEN FZero
    ELSE LET s   == FindShift(tenths, 27)
             hiN == tenths * (2^(s - 27))
             top == (hiN % 10) * Limb
             lo  == top \div 10
             rem == top % 10
             hi  == hiN \div 10
             up  == 2 * rem > 10 \/ (2 * rem = 10 /\ lo % 2 = 1)
             r   == IF up THEN Inc(hi, lo) ELSE <<hi, lo>>
         IN  Normalize(r[1], r[2], 0 - s)

(***************************************************************************)
(* Script-level constants and lookup tables.                               *)
(***************************************************************************)
None == "<None>"

POSTS_BOTH_BLINDS == "posts small & big blind"

HOLE_CARDS == "Hole Cards"

SHOW_DOWN == "Show Down"

SHOWDOWN_ROUND_ID == 4

structures == ("Limit" :> "FL") @@ ("PL" :> "PL") @@ ("NL" :> "NL")

games ==
    ("Hold'em" :> "Holdem") @@ ("Omaha Hi-Lo" :> "OmahaHiLo") @@ ("Omaha" :> "Omaha")
    @@ ("Omaha-5" :> "Omaha") @@ ("Omaha-5 Hi-Lo" :> "OmahaHiLo")
    @@ ("Stud Hi-Lo" :> "StudHiLo") @@ ("Stud" :> "Stud") @@ ("Razz" :> "Stud")

\* a variant that asks a showdown round of stud hands too
requireShowdownAndStud == {"Holdem", "Omaha", "OmahaHiLo", "Stud"}

requireShowdown == {"Holdem", "Omaha", "OmahaHiLo"}

postTypes ==
    ("posts ante" :> "Post Ante") @@ ("posts big blind" :> "Post BB")
    @@ ("posts small blind" :> "Post SB") @@ ("posts straddle" :> "Straddle")

firstRounds ==
    ("Holdem" :> "Preflop") @@ ("Omaha" :> "Preflop") @@ ("OmahaHiLo" :> "Preflop")
    @@ ("Stud" :> "Third Street") @@ ("StudHiLo" :> "Third Street")

makeNewRound ==
    ("Flop" :> "Flop") @@ ("Turn" :> "Turn") @@ ("River" :> "River")
    @@ ("4th Street" :> "Fourth Street") @@ ("5th Street" :> "Fifth Street")
    @@ ("6th Street" :> "Sixth Street") @@ ("Show Down" :> "Showdown")

betVerbToAction ==
    ("bets" :> "Bet") @@ ("brings in for" :> "Bring In") @@ ("calls" :> "Call")
    @@ ("raises to" :> "Raise")

(***************************************************************************)
(* The state of the run.                                                   *)
(***************************************************************************)
VARIABLES
    pc,             \* "split", "loop", "lines", "done" or "aborted"
    failure,        \* the exception that ended the run, or None
    diag,           \* the diagnostics printed so far, in order
    hands,          \* dict: hand number -> {datetime, [table]}
    tables,         \* dict: table name -> {count, latest, [last], ohh}
    span,           \* the hand number whose span the splitter is inside, or None
    order,          \* the hand numbers in the order the hand loop visits them
    idx,            \* the position of the hand loop in order
    handNumber,     \* the hand being processed
    ohh,            \* the record being built for it
    players, playerIds, processedSeats, cardsDealt, currentRound, winners,
    roundNumber, actionNumber, round, pots,
    feed            \* the input still to be read, where a specification fixes it

runVars == <<hands, tables, span, order, idx>>

handVars == <<handNumber, ohh, players, playerIds, processedSeats, cardsDealt,
              currentRound, winners, roundNumber, actionNumber, round, pots>>

vars == <<pc, failure, diag, runVars, handVars, feed>>

\* an uncaught exception: the interpreter unwinds and the process ends
Raise(what) ==
    /\ pc' = "aborted"
    /\ failure' = what
    /\ UNCHANGED <<diag, runVars, handVars>>

(***************************************************************************)
(* Per-hand initialisation (the values the hand loop assigns before the    *)
(* line loop).                                                             *)
(***************************************************************************)
NewOhh(number, table) ==
    [site_name |-> "", network_name |-> "",
     game_number |-> number, table_name |-> table, game_type |-> "",
     bet_limit |-> <<>>, dealer_seat |-> 1,
     small_blind_amount |-> FZero, big_blind_amount |-> FZero, ante_amount |-> FZero,
     players |-> <<>>, rounds |-> <<>>, pots |-> <<>>]

NewRound == [cards |-> <<>>, actions |-> <<>>]

\* a variant in which the action counter runs on from the hand before
HandInitKeepsCounter(number, table) ==
    /\ handNumber' = number
    /\ ohh' = NewOhh(number, table)
    /\ players' = <<>>
    /\ playerIds' = <<>>
    /\ processedSeats' = FALSE
    /\ cardsDealt' = FALSE
    /\ currentRound' = None
    /\ winners' = <<>>
    /\ roundNumber' = 0
    /\ actionNumber' = actionNumber
    /\ round' = NewRound
    /\ pots' = <<>>

HandInit(number, table) ==
    /\ handNumber' = number
    /\ ohh' = NewOhh(number, table)
    /\ players' = <<>>
    /\ playerIds' = <<>>
    /\ processedSeats' = FALSE
    /\ cardsDealt' = FALSE
    /\ currentRound' = None
    /\ winners' = <<>>
    /\ roundNumber' = 0
    /\ actionNumber' = 0
    /\ round' = NewRound
    /\ pots' = <<>>

(***************************************************************************)
(* The log splitter.  Lines are read one at a time; the outer loop looks   *)
(* for a hand header, the inner loop consumes the span up to a blank line. *)
(***************************************************************************)
\* a header line "Hand #<id> - <timestamp>" whose timestamp strptime accepts
ReadHeader(id, time) ==
    /\ pc = "split"
    /\ IF span = None
       THEN /\ hands' = Set(hands, id, [datetime |-> time])
            /\ span' = id
       ELSE \* inside a span the line is only text of the open hand
            UNCHANGED <<hands, span>>
    /\ UNCHANGED <<pc, failure, diag, tables, order, idx, handVars>>

\* a header line whose timestamp strptime rejects
ReadBadHeader ==
    /\ pc = "split"
    /\ IF span = None
       THEN Raise("ValueError: strptime")
       ELSE UNCHANGED <<pc, failure, diag, runVars, handVars>>

\* a line "Table: <name>"
ReadTable(name) ==
    /\ pc = "split"
    /\ span # None
    /\ tables' = IF Has(tables, name) THEN tables
                 ELSE Set(tables, name, [count |-> 0, latest |-> "", ohh |-> <<>>])
    /\ hands' = Set(hands, span, Put(Get(hands, span), "table", name))
    /\ UNCHANGED <<pc, failure, diag, span, order, idx, handVars>>

\* a blank line, or the end of a file, ends the span
ReadBlank ==
    /\ pc = "split"
    /\ span # None
    /\ span' = None
    /\ UNCHANGED <<pc, failure, diag, hands, tables, order, idx, handVars>>

\* the hand numbers seq, kept sorted by timestamp, with h inserted after every
\* hand whose timestamp is not later
RECURSIVE InsertSorted(_, _, _)
InsertSorted(seq, h, hs) ==
    IF seq = <<>> THEN <<h>>
    ELSE IF Get(hs, seq[Len(seq)]).datetime <= Get(hs, h).datetime THEN Append(seq, h)
    ELSE Append(InsertSorted(SubSeq(seq, 1, Len(seq) - 1), h, hs), seq[Len(seq)])

RECURSIVE SortedFrom(_, _, _)
SortedFrom(done, rest, hs) ==
    IF rest = <<>> THEN done
    ELSE SortedFrom(InsertSorted(done, Head(rest), hs), Tail(rest), hs)

\* a variant that visits the hands in the order the splitter met them
SortedHandsAsRead(hs) == Keys(hs)

\* a variant that visits the latest hand first
SortedHandsLatestFirst(hs) ==
    LET up == SortedFrom(<<>>, Keys(hs), hs)
    IN  [i \in 1..Len(up) |-> up[Len(up) + 1 - i]]

\* sorted(hands.keys(), key=lambda hand: hands[hand][DATETIME]): a stable sort
SortedHands(hs) == SortedFrom(<<>>, Keys(hs), hs)

\* the last file is exhausted: the hand loop starts
EndOfInput ==
    /\ pc = "split"
    /\ pc' = "loop"
    /\ span' = None
    /\ order' = SortedHands(hands)
    /\ idx' = 1
    /\ UNCHANGED <<failure, diag, hands, tables, handVars>>

(***************************************************************************)
(* The chronological hand loop.                                            *)
(***************************************************************************)
\* a variant that does not count the hand for its table
StartHandUncounted ==
    /\ pc = "loop"
    /\ idx <= Len(order)
    /\ LET h   == order[idx]
           raw == Get(hands, h)
       IN  IF "table" \notin DOMAIN raw
           THEN Raise("KeyError: hands[handNumber][TABLE]")
           ELSE LET t == Get(tables, raw.table)
                IN  /\ tables' = Set(tables, raw.table,
                                     Put(Put(t, "latest", raw.datetime), "last", h))
                    /\ HandInit(h, raw.table)
                    /\ pc' = "lines"
                    /\ UNCHANGED <<failure, diag, hands, span, order, idx>>

StartHand ==
    /\ pc = "loop"
    /\ idx <= Len(order)
    /\ LET h   == order[idx]
           raw == Get(hands, h)
       IN  IF "table" \notin DOMAIN raw
           THEN Raise("KeyError: hands[handNumber][TABLE]")
           ELSE LET t == Get(tables, raw.table)
                IN  /\ tables' = Set(tables, raw.table,
                                     Put(Put(Put(t, "count", t.count + 1),
                                             "latest", raw.datetime), "last", h))
                    /\ HandInit(h, raw.table)
                    /\ pc' = "lines"
                    /\ UNCHANGED <<failure, diag, hands, span, order, idx>>

(***************************************************************************)
(* The line loop: one action per line shape, each the whole pass of the    *)
(* loop body over a line of that shape.  A line is taken to match the one  *)
(* pattern it is written for.  Amounts on lines are decimal literals,      *)
(* given in tenths.                                                        *)
(***************************************************************************)
\* the line was consumed and changed nothing
NoEffect == UNCHANGED <<pc, failure, diag, runVars, handVars>>

\* a variant that takes the site name until the cards are dealt
SiteLineBeforeDeal(name) ==
    /\ pc = "lines"
    /\ IF ~cardsDealt
       THEN /\ ohh' = Put(Put(ohh, "site_name", name), "network_name", name)
            /\ UNCHANGED <<pc, failure, diag, runVars, handNumber, players, playerIds,
                           processedSeats, cardsDealt, currentRound, winners,
                           roundNumber, actionNumber, round, pots>>
       ELSE NoEffect

\* "Site: <name>"
SiteLine(name) ==
    /\ pc = "lines"
    /\ IF ~cardsDealt /\ ~processedSeats
       THEN /\ ohh' = Put(Put(ohh, "site_name", name), "network_name", name)
            /\ UNCHANGED <<pc, failure, diag, runVars, handNumber, players, playerIds,
                           processedSeats, cardsDealt, currentRound, winners,
                           roundNumber, actionNumber, round, pots>>
       ELSE NoEffect

\* "Game: <structure> <variant> (<stakes>)<terms>"; blinds is <<sb, bb>> and ante
\* is <<a>>, each <<>> when the terms do not state it
GameLine(structure, variant, blinds, ante) ==
    /\ pc = "lines"
    /\ IF ~cardsDealt /\ ~processedSeats
       THEN LET o1 == IF variant \in DOMAIN games
                      THEN Put(ohh, "game_type", games[variant]) ELSE ohh
                o2 == IF structure \in DOMAIN structures
                      THEN Put(o1, "bet_limit", [bet_type |-> structures[structure]])
                      ELSE o1
                o3 == IF blinds # <<>>
                      THEN Put(Put(o2, "small_blind_amount", Float(blinds[1])),
                               "big_blind_amount", Float(blinds[2]))
                      ELSE o2
                o4 == IF ante # <<>> THEN Put(o3, "ante_amount", Float(ante[1])) ELSE o3
                d1 == IF variant \in DOMAIN games THEN diag
                      ELSE Append(diag, [msg |-> "Game variant not found",
                                         what |-> variant, hand |-> handNumber])
                d2 == IF structure \in DOMAIN structures THEN d1
                      ELSE Append(d1, [msg |-> "Structure not found",
                                       what |-> structure, hand |-> handNumber])
            IN  /\ ohh' = o4
                /\ diag' = d2
                /\ UNCHANGED <<pc, failure, runVars, handNumber, players, playerIds,
                               processedSeats, cardsDealt, currentRound, winners,
                               roundNumber, actionNumber, round, pots>>
       ELSE NoEffect

\* "Seat <n>: <name> (<stack>)"
SeatLine(seatNumber, player, stack) ==
    /\ pc = "lines"
    /\ IF ~cardsDealt
       THEN /\ players' = Append(players, [id |-> seatNumber, seat |-> seatNumber,
                                           name |-> player, display |-> player,
                                           starting_stack |-> Float(stack)])
            /\ playerIds' = Set(playerIds, player, seatNumber)
            /\ processedSeats' = TRUE
            /\ UNCHANGED <<pc, failure, diag, runVars, handNumber, ohh, cardsDealt,
                           currentRound, winners, roundNumber, actionNumber, round, pots>>
       ELSE NoEffect

\* "<name> has the dealer button"
ButtonLine(player) ==
    /\ pc = "lines"
    /\ IF ~cardsDealt
       THEN IF Has(playerIds, player)
            THEN /\ ohh' = Put(ohh, "dealer_seat", Get(playerIds, player))
                 /\ UNCHANGED <<pc, failure, diag, runVars, handNumber, players,
                                playerIds, processedSeats, cardsDealt, currentRound,
                                winners, roundNumber, actionNumber, round, pots>>
            ELSE Raise("KeyError: playerIds[buttonPlayer]")
       ELSE NoEffect

\* round[ACTIONS].append(action)
WithAction(r, action) == Put(r, "actions", Append(r.actions, action))

\* the post types for which the both-blinds branch is taken
IsBothBlinds(type) == type = POSTS_BOTH_BLINDS

\* the number the first action of a post line gets: the counter, restarted
\* when the line opens the first round
PostNumber == IF currentRound = None THEN 0 ELSE actionNumber

\* a variant that posts the amount of the small blind twice
BothBlindsActionsSameAmount(pid, n) ==
    <<[action_number |-> n, player_id |-> pid,
       amount |-> ohh.small_blind_amount, action |-> "Post SB"],
      [action_number |-> n + 1, player_id |-> pid,
       amount |-> ohh.small_blind_amount, action |-> "Post BB"]>>

\* the two actions of a "posts small & big blind" line
BothBlindsActions(pid, n) ==
    <<[action_number |-> n, player_id |-> pid,
       amount |-> ohh.small_blind_amount, action |-> "Post SB"],
      [action_number |-> n + 1, player_id |-> pid,
       amount |-> ohh.big_blind_amount, action |-> "Post BB"]>>

\* "<name> posts <type> <amount>"
PostLine(player, type, amount) ==
    /\ pc = "lines"
    /\ IF currentRound = None /\ ohh.game_type \notin DOMAIN firstRounds
       THEN Raise("KeyError: firstRounds[ohh[GAME_TYPE]]")
       ELSE IF ~Has(playerIds, player)
       THEN Raise("KeyError: playerIds[player]")
       ELSE IF ~IsBothBlinds(type) /\ type \notin DOMAIN postTypes
       THEN Raise("KeyError: postTypes[type]")
       ELSE LET opened == IF currentRound = None
                          THEN Put(Put(round, "id", roundNumber),
                                   "street", firstRounds[ohh.game_type])
                          ELSE round
                n      == PostNumber
                pid    == Get(playerIds, player)
                acts   == IF IsBothBlinds(type)
                          THEN BothBlindsActions(pid, n)
                          ELSE <<[action_number |-> n, player_id |-> pid,
                                  amount |-> Float(amount), action |-> postTypes[type]]>>
            IN  /\ cardsDealt' = TRUE
                /\ currentRound' = IF currentRound = None
                                   THEN firstRounds[ohh.game_type] ELSE currentRound
                /\ round' = Put(opened, "actions", opened.actions \o acts)
                /\ actionNumber' = n + Len(acts)
                /\ UNCHANGED <<pc, failure, diag, runVars, handNumber, ohh, players,
                               playerIds, processedSeats, winners, roundNumber, pots>>

\* roundMarker == HOLE_CARDS compares the match object with a string
MarkerIsHoleCards(label) == FALSE

\* the labels of the model that contain "Show Down"
ShowDownLabels == {"Show Down", "Hi Show Down"}

\* SHOW_DOWN in label
ContainsShowDown(label) == label \in ShowDownLabels

\* a variant that forgets to advance the round id
NextRoundIdStale == roundNumber

\* the id the round opened by a street marker gets
NextRoundId == roundNumber + 1

\* a variant in which a street marker leaves the action counter running
MarkerLineKeepsCounter(label, cards) ==
    /\ pc = "lines"
    /\ IF label \in DOMAIN makeNewRound
       THEN /\ ohh' = Put(ohh, "rounds", Append(ohh.rounds, round))
            /\ roundNumber' = roundNumber + 1
            /\ currentRound' = makeNewRound[label]
            /\ round' = [id |-> NextRoundId, street |-> makeNewRound[label],
                         cards |-> cards,
                         actions |-> <<>>]
            /\ UNCHANGED <<pc, failure, diag, runVars, handNumber, players, playerIds,
                           processedSeats, cardsDealt, winners, pots, actionNumber>>
       ELSE NoEffect

\* "** <label> ** [<cards>]"; cards is <<>> when the line has no bracketed list
MarkerLine(label, cards) ==
    /\ pc = "lines"
    /\ IF MarkerIsHoleCards(label)
       THEN IF currentRound = None
            THEN IF ohh.game_type \notin DOMAIN firstRounds
                 THEN Raise("KeyError: firstRounds[ohh[GAME_TYPE]]")
                 ELSE /\ actionNumber' = 0
                      /\ round' = Put(Put(round, "id", roundNumber),
                                      "street", firstRounds[ohh.game_type])
                      /\ currentRound' = firstRounds[ohh.game_type]
                      /\ UNCHANGED <<pc, failure, diag, runVars, handNumber, ohh,
                                     players, playerIds, processedSeats, cardsDealt,
                                     winners, roundNumber, pots>>
            ELSE NoEffect
       ELSE IF label \in DOMAIN makeNewRound
       THEN /\ ohh' = Put(ohh, "rounds", Append(ohh.rounds, round))
            /\ roundNumber' = roundNumber + 1
            /\ actionNumber' = 0
            /\ currentRound' = makeNewRound[label]
            /\ round' = [id |-> NextRoundId, street |-> makeNewRound[label],
                         cards |-> cards,
                         actions |-> <<>>]
            /\ UNCHANGED <<pc, failure, diag, runVars, handNumber, players, playerIds,
                           processedSeats, cardsDealt, winners, pots>>
       ELSE IF ContainsShowDown(label)
       THEN /\ ohh' = Put(ohh, "rounds", Append(ohh.rounds, round))
            /\ roundNumber' = roundNumber + 1
            /\ actionNumber' = 0
            /\ currentRound' = label
            /\ round' = [id |-> NextRoundId, street |-> makeNewRound[SHOW_DOWN],
                         cards |-> <<>>, actions |-> <<>>]
            /\ UNCHANGED <<pc, failure, diag, runVars, handNumber, players, playerIds,
                           processedSeats, cardsDealt, winners, pots>>
       ELSE NoEffect

\* an action line of a seated player: the action, numbered, joins the round
Emit(player, fields) ==
    /\ round' = WithAction(round, Put(Put(fields, "player_id", Get(playerIds, player)),
                                      "action_number", actionNumber))
    /\ actionNumber' = actionNumber + 1
    /\ UNCHANGED <<pc, failure, diag, runVars, handNumber, ohh, players, playerIds,
                   processedSeats, cardsDealt, currentRound, winners, roundNumber, pots>>

\* a variant that does not look whether a round is active
AddOnLineOfSeated(player, additional) ==
    /\ pc = "lines"
    /\ IF Has(playerIds, player)
       THEN Emit(player, [amount |-> Float(additional), action |-> "Added Chips"])
       ELSE NoEffect

\* "<name> adds <amount> chips"
AddOnLine(player, additional) ==
    /\ pc = "lines"
    /\ IF currentRound # None /\ Has(playerIds, player)
       THEN Emit(player, [amount |-> Float(additional), action |-> "Added Chips"])
       ELSE NoEffect

\* "Dealt to <name> [<cards>]"
DealtLine(player, cards) ==
    /\ pc = "lines"
    /\ IF Has(playerIds, player)
       THEN Emit(player, [action |-> "Dealt Cards", cards |-> cards])
       ELSE Raise("KeyError: playerIds[player]")

\* "<name> checks"
ChecksLine(player) ==
    /\ pc = "lines"
    /\ IF Has(playerIds, player)
       THEN Emit(player, [action |-> "Check"])
       ELSE Raise("KeyError: playerIds[player]")

\* "<name> folds"
FoldsLine(player) ==
    /\ pc = "lines"
    /\ IF Has(playerIds, player)
       THEN Emit(player, [action |-> "Fold"])
       ELSE Raise("KeyError: playerIds[player]")

\* "<name> bets|calls|raises to|brings in for <amount>[ (All-in)]"
BetLine(player, does, amount, allIn) ==
    /\ pc = "lines"
    /\ IF Has(playerIds, player)
       THEN LET a == [amount |-> Float(amount), action |-> betVerbToAction[does]]
            IN  Emit(player, IF allIn THEN Put(a, "is_allin", TRUE) ELSE a)
       ELSE Raise("KeyError: playerIds[player]")

\* "<name> shows [<cards>]"
ShowsLine(player, cards) ==
    /\ pc = "lines"
    /\ IF Has(playerIds, player)
       THEN Emit(player, [action |-> "Shows Cards", cards |-> cards])
       ELSE Raise("KeyError: playerIds[player]")

\* "<name> refunded <amount>"
RefundedLine(player, amount) ==
    /\ pc = "lines"
    /\ IF Has(playerIds, player)
       THEN NoEffect
       ELSE Raise("KeyError: playerIds[player]")

\* a variant in which a win replaces what the player had won of the pot
PotsAfterWinReplaced(ps, potNumber, playerId, win) ==
    LET p0 == IF Has(ps, potNumber) THEN Get(ps, potNumber)
              ELSE [number |-> potNumber, amount |-> FZero, rake |-> FZero,
                    player_wins |-> <<>>]
        w0 == IF Has(p0.player_wins, playerId) THEN Get(p0.player_wins, playerId)
              ELSE [player_id |-> playerId, win_amount |-> FZero,
                    contributed_rake |-> FZero]
        w1 == Put(w0, "win_amount", win)
        p1 == Put(Put(p0, "amount", FAdd(p0.amount, win)),
                  "player_wins", Set(p0.player_wins, playerId, w1))
    IN  Set(ps, potNumber, p1)

\* pots after potNumber got win more for playerId
PotsAfterWin(ps, potNumber, playerId, win) ==
    LET p0 == IF Has(ps, potNumber) THEN Get(ps, potNumber)
              ELSE [number |-> potNumber, amount |-> FZero, rake |-> FZero,
                    player_wins |-> <<>>]
        w0 == IF Has(p0.player_wins, playerId) THEN Get(p0.player_wins, playerId)
              ELSE [player_id |-> playerId, win_amount |-> FZero,
                    contributed_rake |-> FZero]
        w1 == Put(w0, "win_amount", FAdd(w0.win_amount, win))
        p1 == Put(Put(p0, "amount", FAdd(p0.amount, win)),
                  "player_wins", Set(p0.player_wins, playerId, w1))
    IN  Set(ps, potNumber, p1)

\* "<name> wins|splits ... Pot [<n>] (<amount>)"; pot is <<n>>, or <<>> when the
\* line gives no pot number
WinLine(player, pot, amount) ==
    /\ pc = "lines"
    /\ IF Has(playerIds, player)
       THEN LET playerId  == Get(playerIds, player)
                potNumber == IF pot # <<>> THEN pot[1] ELSE 0
            IN  /\ winners' = Append(winners, playerId)
                /\ pots' = PotsAfterWin(pots, potNumber, playerId, Float(amount))
                /\ UNCHANGED <<pc, failure, diag, runVars, handNumber, ohh, players,
                               playerIds, processedSeats, cardsDealt, currentRound,
                               roundNumber, actionNumber, round>>
       ELSE Raise("KeyError: playerIds[player]")

(***************************************************************************)
(* After the line loop: pot resolution, the final round, showdown          *)
(* completion and the hand's place in its table's collection.              *)
(***************************************************************************)
\* the list of a player_wins dict's values, in the dict's order
WinObjects(wins) == [i \in 1..Len(wins) |-> wins[i].v]

\* the order in which the pots dict is stepped through: pots.keys()
PotOrder(ps) == Keys(ps)

\* ohh[POTS] after the loop over pots
ResolvedPots(ps) ==
    LET ks == PotOrder(ps)
    IN  [i \in 1..Len(ks) |->
            LET p == Get(ps, ks[i])
            IN  [number |-> ks[i], amount |-> p.amount, rake |-> p.rake,
                 player_wins |-> WinObjects(p.player_wins)]]

\* a variant that numbers the showdown round like any other round
MucksRoundNaturalId(ws) ==
    [id |-> roundNumber + 1, street |-> makeNewRound[SHOW_DOWN], cards |-> <<>>,
     actions |-> <<[action_number |-> 0, player_id |-> ws[1],
                    action |-> "Mucks Cards"]>>]

\* the round showdown completion builds for the sole winner
MucksRound(ws) ==
    [id |-> SHOWDOWN_ROUND_ID, street |-> makeNewRound[SHOW_DOWN], cards |-> <<>>,
     actions |-> <<[action_number |-> 0, player_id |-> ws[1],
                    action |-> "Mucks Cards"]>>]

\* hasShowdownRound after the scan of the rounds
HasShowdownRound(rs) == \E i \in 1..Len(rs) : rs[i].id = SHOWDOWN_ROUND_ID

\* what the variable round holds when ohh[ROUNDS].append(round) closes the
\* missing-showdown branch: the new round for a sole winner, else the value
\* the scan "for round in ohh[ROUNDS]" left in it, the last round of the list
RoundToAppend(rs, ws) ==
    IF Len(ws) > 1 \/ Len(ws) = 0 THEN rs[Len(rs)] ELSE MucksRound(ws)

\* ohh[ROUNDS] after showdown completion; rs holds the final round already
CompletedRounds(rs, gameType, ws) ==
    IF gameType \in requireShowdown /\ ~HasShowdownRound(rs)
    THEN Append(rs, RoundToAppend(rs, ws))
    ELSE rs

\* the diagnostic showdown completion prints, if any
ShowdownDiag(rs, gameType, ws, number) ==
    IF gameType \in requireShowdown /\ ~HasShowdownRound(rs)
    THEN IF Len(ws) > 1
         THEN <<[msg |-> "missing a showdown round while having more than one winner",
                 what |-> "", hand |-> number]>>
         ELSE IF Len(ws) = 0
         THEN <<[msg |-> "appears there are no winners", what |-> "", hand |-> number]>>
         ELSE <<>>
    ELSE <<>>

\* the end of the hand's text
CompleteHand ==
    /\ pc = "lines"
    /\ LET rs == Append(ohh.rounds, round)
       IN  IF /\ ohh.game_type \in requireShowdown
              /\ \E i \in 1..Len(rs) : "id" \notin DOMAIN rs[i]
           THEN Raise("KeyError: round[ID]")
           ELSE LET done == Put(Put(Put(ohh, "pots", ResolvedPots(pots)),
                                    "players", players),
                                "rounds", CompletedRounds(rs, ohh.game_type, winners))
                    t    == Get(tables, ohh.table_name)
                IN  /\ ohh' = done
                    /\ diag' = diag \o ShowdownDiag(rs, ohh.game_type, winners, handNumber)
                    /\ tables' = Set(tables, ohh.table_name,
                                     Put(t, "ohh", Append(t.ohh, done)))
                    /\ round' = done.rounds[Len(done.rounds)]
                    /\ actionNumber' = IF /\ ohh.game_type \in requireShowdown
                                          /\ ~HasShowdownRound(rs)
                                          /\ Len(winners) = 1
                                       THEN 0 ELSE actionNumber
                    /\ idx' = idx + 1
                    /\ pc' = "loop"
                    /\ UNCHANGED <<failure, hands, span, order, handNumber, players,
                                   playerIds, processedSeats, cardsDealt, currentRound,
                                   winners, roundNumber, pots>>

Finish ==
    /\ pc = "loop"
    /\ idx > Len(order)
    /\ pc' = "done"
    /\ UNCHANGED <<failure, diag, runVars, handVars>>

\* the program's state before the first file is read
Start ==
    /\ pc = "split"
    /\ failure = None
    /\ diag = <<>>
    /\ hands = <<>>
    /\ tables = <<>>
    /\ span = None
    /\ order = <<>>
    /\ idx = 0
    /\ handNumber = ""
    /\ ohh = NewOhh("", "")
    /\ players = <<>>
    /\ playerIds = <<>>
    /\ processedSeats = FALSE
    /\ cardsDealt = FALSE
    /\ currentRound = None
    /\ winners = <<>>
    /\ roundNumber = 0
    /\ actionNumber = 0
    /\ round = NewRound
    /\ pots = <<>>

Init == Start /\ feed = <<>>

(***************************************************************************)
(* The inputs of the model.                                                *)
(***************************************************************************)
HandIds == {"1-1", "1-2"}

Times == 1..MaxTime

TableNames == {"T1", "T2"}

Names == {"Alice", "Bob"}

SeatOf == ("Alice" :> 1) @@ ("Bob" :> 2)

\* the actions the hand holds so far, over the closed rounds and the open one
RECURSIVE CountActions(_)
CountActions(rs) ==
    IF rs = <<>> THEN 0 ELSE Len(Head(rs).actions) + CountActions(Tail(rs))

NActions == CountActions(Append(ohh.rounds, round))

(***************************************************************************)
(* Spec: the whole run, from the first line read by the splitter to the    *)
(* end of the hand loop, over hands of a few lines each.                   *)
(***************************************************************************)
Next ==
    \/ \E id \in HandIds, t \in Times :
          Len(hands) < MaxHeaders /\ ReadHeader(id, t) /\ UNCHANGED feed
    \/ ReadBadHeader /\ UNCHANGED feed
    \/ \E n \in TableNames : ReadTable(n) /\ UNCHANGED feed
    \/ ReadBlank /\ UNCHANGED feed
    \/ EndOfInput /\ UNCHANGED feed
    \/ StartHand /\ UNCHANGED feed
    \/ \E v \in {"Hold'em", "Badugi"} :
          DOMAIN ohh.bet_limit = {} /\ GameLine("NL", v, <<1, 2>>, <<>>) /\ UNCHANGED feed
    \/ Len(players) < MaxShort /\ SeatLine(1, "Alice", 1000) /\ UNCHANGED feed
    \/ \E p \in Names : ButtonLine(p) /\ UNCHANGED feed
    \/ \E t \in {"posts small blind", "posts dead blind"} :
          NActions < MaxShort /\ PostLine("Alice", t, 1) /\ UNCHANGED feed
    \/ Len(winners) < MaxShort /\ WinLine("Alice", <<>>, 3) /\ UNCHANGED feed
    \/ CompleteHand /\ UNCHANGED feed
    \/ Finish /\ UNCHANGED feed

Spec == Init /\ [][Next]_vars

(***************************************************************************)
(* The state after the splitter read one hand of table T1: the start of    *)
(* the specifications about one hand's text.                               *)
(***************************************************************************)
OneHandRead ==
    /\ pc = "loop"
    /\ failure = None
    /\ diag = <<>>
    /\ hands = <<[k |-> "1-1", v |-> [datetime |-> 1, table |-> "T1"]]>>
    /\ tables = <<[k |-> "T1", v |-> [count |-> 0, latest |-> "", ohh |-> <<>>]]>>
    /\ span = None
    /\ order = <<"1-1">>
    /\ idx = 1
    /\ handNumber = ""
    /\ ohh = NewOhh("", "")
    /\ players = <<>>
    /\ playerIds = <<>>
    /\ processedSeats = FALSE
    /\ cardsDealt = FALSE
    /\ currentRound = None
    /\ winners = <<>>
    /\ roundNumber = 0
    /\ actionNumber = 0
    /\ round = NewRound
    /\ pots = <<>>

InitHand == OneHandRead /\ feed = <<>>

\* the post actions the hand holds so far
RECURSIVE CountPosts(_)
CountPosts(rs) ==
    IF rs = <<>> THEN 0
    ELSE Cardinality({i \in 1..Len(Head(rs).actions) :
                         Head(rs).actions[i].action \in {"Post SB", "Post BB"}})
         + CountPosts(Tail(rs))

NPosts == CountPosts(Append(ohh.rounds, round))

(***************************************************************************)
(* SpecRounds: one hand, over texts of game, seat, post, street-marker     *)
(* and win lines in any order.                                             *)
(***************************************************************************)
NextRounds ==
    \/ StartHand /\ UNCHANGED feed
    \/ \E v \in {"Hold'em", "Stud"} : GameLine("NL", v, <<1, 2>>, <<>>) /\ UNCHANGED feed
    \/ \E p \in Names : Len(players) < MaxSeats /\ SeatLine(SeatOf[p], p, 1000) /\ UNCHANGED feed
    \/ NPosts < MaxPosts /\ PostLine("Alice", "posts small blind", 5) /\ UNCHANGED feed
    \/ \E l \in {"Flop", "Show Down", "Hole Cards"} :
          roundNumber < MaxMarkers
          /\ MarkerLine(l, IF l = "Flop" THEN <<"2h", "7c", "Qs">> ELSE <<>>) /\ UNCHANGED feed
    \/ \E p \in Names : Len(winners) < MaxWins /\ WinLine(p, <<>>, 3) /\ UNCHANGED feed
    \/ CompleteHand /\ UNCHANGED feed
    \/ Finish /\ UNCHANGED feed

SpecRounds == InitHand /\ [][NextRounds]_vars

(***************************************************************************)
(* SpecActions: one hand, over texts of every action-emitting line shape,  *)
(* before and after the first post line and across a street marker.        *)
(***************************************************************************)
NextActions ==
    \/ StartHand /\ UNCHANGED feed
    \/ GameLine("NL", "Hold'em", <<1, 2>>, <<>>) /\ UNCHANGED feed
    \/ Len(players) < MaxSeats /\ SeatLine(1, "Alice", 1000) /\ UNCHANGED feed
    \/ \E t \in {"posts small blind", "posts ante", POSTS_BOTH_BLINDS} :
          NActions < MaxActionLines /\ PostLine("Alice", t, 5) /\ UNCHANGED feed
    \/ \E l \in {"Flop", "Hi Show Down", "Pre-Flop"} :
          roundNumber < MaxStreets /\ MarkerLine(l, <<>>) /\ UNCHANGED feed
    \/ NActions < MaxActionLines /\ AddOnLine("Alice", 5) /\ UNCHANGED feed
    \/ NActions < MaxActionLines /\ DealtLine("Alice", <<"Ah", "Kd">>) /\ UNCHANGED feed
    \/ NActions < MaxActionLines /\ ChecksLine("Alice") /\ UNCHANGED feed
    \/ NActions < MaxActionLines /\ FoldsLine("Alice") /\ UNCHANGED feed
    \/ \E al \in BOOLEAN :
          NActions < MaxActionLines /\ BetLine("Alice", "raises to", 5, al) /\ UNCHANGED feed
    \/ NActions < MaxActionLines /\ ShowsLine("Alice", <<"Ah", "Kd">>) /\ UNCHANGED feed
    \/ RefundedLine("Alice", 5) /\ UNCHANGED feed
    \/ CompleteHand /\ UNCHANGED feed
    \/ Finish /\ UNCHANGED feed

SpecActions == InitHand /\ [][NextActions]_vars

(***************************************************************************)
(* SpecPots: one hand, over texts of seat and win lines for several pots   *)
(* and amounts.                                                            *)
(***************************************************************************)
WinAmounts == 1..MaxTenths

PotTexts == {<<>>, <<0>>, <<1>>}

NextPots ==
    \/ StartHand /\ UNCHANGED feed
    \/ GameLine("NL", "Hold'em", <<1, 2>>, <<>>) /\ UNCHANGED feed
    \/ \E p \in Names : Len(players) < MaxSeats /\ SeatLine(SeatOf[p], p, 1000) /\ UNCHANGED feed
    \/ \E p \in Names, n \in PotTexts, a \in WinAmounts :
          Len(winners) < MaxPotWins /\ WinLine(p, n, a) /\ UNCHANGED feed
    \/ CompleteHand /\ UNCHANGED feed
    \/ Finish /\ UNCHANGED feed

SpecPots == InitHand /\ [][NextPots]_vars

(***************************************************************************)
(* Specifications that fix the input before the run: feed holds the lines  *)
(* and the place of the reader in them.  A line is a record of its kind    *)
(* and of the groups its pattern captures: who and what are names and      *)
(* labels, nums the numbers (amounts in tenths), cards the card tokens.    *)
(***************************************************************************)
Line(kind, who, what, nums, cards) ==
    [kind |-> kind, who |-> who, what |-> what, nums |-> nums, cards |-> cards]

\* one pass of the line loop body over line l
HandleLine(l) ==
    CASE l.kind = "site"   -> SiteLine(l.what)
      [] l.kind = "game"   -> GameLine(l.who, l.what, l.nums, <<>>)
      [] l.kind = "seat"   -> SeatLine(l.nums[1], l.who, l.nums[2])
      [] l.kind = "post"   -> PostLine(l.who, l.what, l.nums[1])
      [] l.kind = "marker" -> MarkerLine(l.what, l.cards)
      [] l.kind = "addon"  -> AddOnLine(l.who, l.nums[1])
      [] l.kind = "checks" -> ChecksLine(l.who)
      [] l.kind = "folds"  -> FoldsLine(l.who)
      [] l.kind = "win"    -> WinLine(l.who, SubSeq(l.nums, 2, Len(l.nums)), l.nums[1])

\* the texts of at most MaxLines lines over the lines of alphabet
Texts(alphabet) == UNION {[1..n -> alphabet] : n \in 0..MaxLines}

\* the hand loop is about to read text as the text of the one hand
InitText(texts) ==
    /\ OneHandRead
    /\ feed \in {[text |-> t, at |-> 1] : t \in texts}

\* the line loop takes the next line of the text
TextLine ==
    /\ pc = "lines"
    /\ feed.at <= Len(feed.text)
    /\ HandleLine(feed.text[feed.at])
    /\ feed' = [feed EXCEPT !.at = @ + 1]

\* splitlines() is exhausted
TextEnd ==
    /\ feed.at > Len(feed.text)
    /\ CompleteHand
    /\ UNCHANGED feed

NextText ==
    \/ StartHand /\ UNCHANGED feed
    \/ TextLine
    \/ TextEnd
    \/ Finish /\ UNCHANGED feed

\* the line the reader is at is l, and the step consumes it
Consumes(l) ==
    /\ pc = "lines"
    /\ feed.at <= Len(feed.text)
    /\ feed.text[feed.at] = l
    /\ feed'.at = feed.at + 1

GameHoldem == Line("game", "NL", "Hold'em", <<1, 2>>, <<>>)

SeatAlice == Line("seat", "Alice", "", <<1, 1000>>, <<>>)

SeatBob == Line("seat", "Bob", "", <<2, 1000>>, <<>>)

AlicePostsSmall == Line("post", "Alice", "posts small blind", <<10>>, <<>>)

BobPostsBig == Line("post", "Bob", "posts big blind", <<20>>, <<>>)

FlopLine == Line("marker", "", "Flop", <<>>, <<"2h", "7c", "Qs">>)

AliceFolds == Line("folds", "Alice", "", <<>>, <<>>)

AliceChecks == Line("checks", "Alice", "", <<>>, <<>>)

(***************************************************************************)
(* SpecExample: the hand of six lines (two seats, two blinds, the flop, a  *)
(* fold), every text got from it by leaving lines out, and each of these   *)
(* behind a Game line.                                                     *)
(***************************************************************************)
ExampleText == <<SeatAlice, SeatBob, AlicePostsSmall, BobPostsBig, FlopLine, AliceFolds>>

\* seq without the places the set drop names
RECURSIVE Without(_, _)
Without(seq, drop) ==
    IF seq = <<>> THEN <<>>
    ELSE LET front == Without(SubSeq(seq, 1, Len(seq) - 1), drop)
         IN  IF Len(seq) \in drop THEN front ELSE Append(front, seq[Len(seq)])

ExampleTexts ==
    LET cut == {Without(ExampleText, d) : d \in SUBSET (1..Len(ExampleText))}
    IN  cut \cup {<<GameHoldem>> \o t : t \in cut}

SpecExample == InitText(ExampleTexts) /\ [][NextText]_vars

(***************************************************************************)
(* SpecStreets: one hand, over every text of at most MaxLines lines drawn  *)
(* from a game line, a seat line, a post line, three street markers with   *)
(* and without cards, the hole-cards marker and an action line.            *)
(***************************************************************************)
HoleCardsLine == Line("marker", "", HOLE_CARDS, <<>>, <<>>)

SixthStreetLine == Line("marker", "", "6th Street", <<>>, <<>>)

ShowDownLine == Line("marker", "", SHOW_DOWN, <<>>, <<>>)

StreetLines == {FlopLine, SixthStreetLine, ShowDownLine}

SpecStreets ==
    InitText(Texts({GameHoldem, SeatAlice, AlicePostsSmall, AliceChecks, HoleCardsLine}
                   \cup StreetLines))
    /\ [][NextText]_vars

(***************************************************************************)
(* SpecAddOn: one hand, over every text of at most MaxLines lines drawn    *)
(* from add-on lines of a seated and of an unseated player and the lines   *)
(* that seat a player, open a round and emit an action.                    *)
(***************************************************************************)
AliceAddsOn == Line("addon", "Alice", "", <<50>>, <<>>)

BobAddsOn == Line("addon", "Bob", "", <<70>>, <<>>)

SpecAddOn ==
    InitText(Texts({GameHoldem, SeatAlice, AlicePostsSmall, FlopLine, AliceChecks,
                    AliceAddsOn, BobAddsOn}))
    /\ [][NextText]_vars

(***************************************************************************)
(* SpecHeader: one hand, over every text of at most MaxLines lines drawn   *)
(* from two site lines, two game lines, a seat line and a post line.       *)
(***************************************************************************)
SiteOne == Line("site", "", "Mavens One", <<>>, <<>>)

SiteTwo == Line("site", "", "Mavens Two", <<>>, <<>>)

GameOmaha == Line("game", "PL", "Omaha", <<3, 4>>, <<>>)

HeaderLines == {SiteOne, SiteTwo, GameHoldem, GameOmaha}

SpecHeader ==
    InitText(Texts(HeaderLines \cup {SeatAlice, AlicePostsSmall}))
    /\ [][NextText]_vars

(***************************************************************************)
(* SpecBuffers: the script run on two input files in the order A, B and    *)
(* then, from scratch, in the order B, A.  feed holds the two files, the   *)
(* pass, the place of the splitter in the input of the pass and the tables *)
(* the first pass ended with.  The hands carry no lines past the Table     *)
(* line.                                                                   *)
(***************************************************************************)
Header(id, time) == Line("header", id, "", <<time>>, <<>>)

TableLine(name) == Line("table", "", name, <<>>, <<>>)

BlankLine == Line("blank", "", "", <<>>, <<>>)

\* readline() returns '' at the end of a file
EndOfFile == Line("eof", "", "", <<>>, <<>>)

\* one readline() of the splitter and what the loops do with line l
ReadLine(l) ==
    CASE l.kind = "header" -> ReadHeader(l.who, l.nums[1])
      [] l.kind = "table"  -> IF span # None THEN ReadTable(l.what) ELSE NoEffect
      [] l.kind \in {"blank", "eof"} -> IF span # None THEN ReadBlank ELSE NoEffect

\* the lines of the files in the order args.file gives them in the pass
Input(f) ==
    IF f.pass = 1
    THEN f.buffers[1] \o <<EndOfFile>> \o f.buffers[2] \o <<EndOfFile>>
    ELSE f.buffers[2] \o <<EndOfFile>> \o f.buffers[1] \o <<EndOfFile>>

BufferLines ==
    {Header("1-1", 1), Header("1-2", 1), Header("1-2", 2),
     TableLine("T1"), TableLine("T2"), BlankLine}

Buffers == UNION {[1..n -> BufferLines] : n \in 0..MaxBufferLines}

InitBuffers ==
    /\ Start
    /\ feed \in {[buffers |-> <<a, b>>, pass |-> 1, at |-> 1, first |-> <<>>] :
                    a \in Buffers, b \in Buffers}

BufferLine ==
    /\ pc = "split"
    /\ feed.at <= Len(Input(feed))
    /\ ReadLine(Input(feed)[feed.at])
    /\ feed' = [feed EXCEPT !.at = @ + 1]

BufferEnd ==
    /\ feed.at > Len(Input(feed))
    /\ EndOfInput
    /\ UNCHANGED feed

\* the script is started again, on the files in the other order
SecondPass ==
    /\ pc = "done"
    /\ feed.pass = 1
    /\ feed' = [feed EXCEPT !.pass = 2, !.at = 1, !.first = tables]
    /\ pc' = "split"
    /\ failure' = None
    /\ diag' = <<>>
    /\ hands' = <<>>
    /\ tables' = <<>>
    /\ span' = None
    /\ order' = <<>>
    /\ idx' = 0
    /\ HandInit("", "")

NextBuffers ==
    \/ BufferLine
    \/ BufferEnd
    \/ StartHand /\ UNCHANGED feed
    \/ CompleteHand /\ UNCHANGED feed
    \/ Finish /\ UNCHANGED feed
    \/ SecondPass

SpecBuffers == InitBuffers /\ [][NextBuffers]_vars

(***************************************************************************)
(* SpecWins: one hand, over every text of at most MaxLines lines drawn     *)
(* from two seat lines, an action line, a street marker and win lines of   *)
(* both players with and without a pot number.  A win line carries its     *)
(* amount and, when it prints one, its pot number after it.                *)
(***************************************************************************)
AliceWins == Line("win", "Alice", "", <<1>>, <<>>)

AliceWinsPot0 == Line("win", "Alice", "", <<2, 0>>, <<>>)

AliceWinsPot1 == Line("win", "Alice", "", <<3, 1>>, <<>>)

BobWins == Line("win", "Bob", "", <<3>>, <<>>)

BobWinsPot1 == Line("win", "Bob", "", <<2, 1>>, <<>>)

WinLines == {AliceWins, AliceWinsPot0, AliceWinsPot1, BobWins, BobWinsPot1}

SpecWins ==
    InitText(Texts(WinLines \cup {SeatAlice, SeatBob, AliceChecks, FlopLine}))
    /\ [][NextText]_vars

(***************************************************************************)
(* SpecTwoHands: the script run on hand 1-1 followed by hand 1-2, both of  *)
(* table T1, and then, from scratch, on hand 1-2 alone.  Hand 1-1 has one  *)
(* of two texts that leave every per-hand variable changed; hand 1-2 has   *)
(* any text of at most MaxLines lines.  feed holds the two texts, the      *)
(* pass, the text of the hand being processed with the place of the line   *)
(* loop in it, and how the first pass ended.                               *)
(***************************************************************************)
\* a hand that ends with a sole winner and a synthesized showdown round
BusyText == <<GameHoldem, SeatAlice, AlicePostsSmall, FlopLine, AliceChecks, AliceWins>>

\* a hand that ends with no winner and the diagnostic
BusyTextNoWinner == <<GameHoldem, SeatAlice, AlicePostsSmall, FlopLine, AliceChecks>>

SecondTexts == Texts({GameHoldem, SeatAlice, AlicePostsSmall, AliceChecks, AliceWins})

\* hands[h][TEXT] of the pass
TextOfHand(h) == IF h = "1-1" THEN feed.texts[1] ELSE feed.texts[2]

InitTwoHands ==
    /\ pc = "loop"
    /\ failure = None
    /\ diag = <<>>
    /\ hands = <<[k |-> "1-1", v |-> [datetime |-> 1, table |-> "T1"]],
                 [k |-> "1-2", v |-> [datetime |-> 2, table |-> "T1"]]>>
    /\ tables = <<[k |-> "T1", v |-> [count |-> 0, latest |-> "", ohh |-> <<>>]]>>
    /\ span = None
    /\ order = SortedHands(hands)
    /\ idx = 1
    /\ handNumber = ""
    /\ ohh = NewOhh("", "")
    /\ players = <<>>
    /\ playerIds = <<>>
    /\ processedSeats = FALSE
    /\ cardsDealt = FALSE
    /\ currentRound = None
    /\ winners = <<>>
    /\ roundNumber = 0
    /\ actionNumber = 0
    /\ round = NewRound
    /\ pots = <<>>
    /\ feed \in {[texts |-> <<a, b>>, pass |-> 1, text |-> <<>>, at |-> 1,
                   first |-> <<>>] :
                    a \in {BusyText, BusyTextNoWinner}, b \in SecondTexts}

\* the hand loop takes the next hand and its text
StartText ==
    /\ StartHand
    /\ feed' = [feed EXCEPT !.text = TextOfHand(order[idx]), !.at = 1]

\* how a pass ended: where it stopped, with what failure, and what it filed
\* and printed
Ended == [pc |-> pc, failure |-> failure, idx |-> idx, diag |-> diag,
          filed |-> Get(tables, "T1").ohh]

\* the script is started again, on an input that holds hand 1-2 only
AloneAgain ==
    /\ pc \in {"done", "aborted"}
    /\ feed.pass = 1
    /\ feed' = [feed EXCEPT !.pass = 2, !.text = <<>>, !.at = 1, !.first = <<Ended>>]
    /\ pc' = "loop"
    /\ failure' = None
    /\ diag' = <<>>
    /\ hands' = <<[k |-> "1-2", v |-> [datetime |-> 2, table |-> "T1"]]>>
    /\ tables' = <<[k |-> "T1", v |-> [count |-> 0, latest |-> "", ohh |-> <<>>]]>>
    /\ span' = None
    /\ order' = <<"1-2">>
    /\ idx' = 1
    /\ handNumber' = ""
    /\ ohh' = NewOhh("", "")
    /\ players' = <<>>
    /\ playerIds' = <<>>
    /\ processedSeats' = FALSE
    /\ cardsDealt' = FALSE
    /\ currentRound' = None
    /\ winners' = <<>>
    /\ roundNumber' = 0
    /\ actionNumber' = 0
    /\ round' = NewRound
    /\ pots' = <<>>

NextTwoHands ==
    \/ StartText
    \/ TextLine
    \/ TextEnd
    \/ Finish /\ UNCHANGED feed
    \/ AloneAgain

SpecTwoHands == InitTwoHands /\ [][NextTwoHands]_vars

(***************************************************************************)
(* SpecSidePots: the Hold'em hand in which one player wins pot 0 and pot   *)
(* 1, and every text got from it by leaving lines out.                     *)
(***************************************************************************)
SidePotsText ==
    <<GameHoldem, SeatAlice, AlicePostsSmall, FlopLine, AliceWinsPot0, AliceWinsPot1>>

SidePotsTexts == {Without(SidePotsText, d) : d \in SUBSET (1..Len(SidePotsText))}

SpecSidePots == InitText(SidePotsTexts) /\ [][NextText]_vars

(***************************************************************************)
(* SpecStud: one hand of a stud variant, or of no stated variant, over     *)
(* texts of game, seat, ante, street-marker and win lines in any order.    *)
(***************************************************************************)
NextStud ==
    \/ StartHand /\ UNCHANGED feed
    \/ \E v \in {"Stud", "Stud Hi-Lo"} :
          GameLine("Limit", v, <<1, 2>>, <<>>) /\ UNCHANGED feed
    \/ Len(players) < MaxSeats /\ SeatLine(1, "Alice", 1000) /\ UNCHANGED feed
    \/ NActions < MaxPosts /\ PostLine("Alice", "posts ante", 5) /\ UNCHANGED feed
    \/ \E l \in {"4th Street", "Show Down"} :
          roundNumber < MaxMarkers /\ MarkerLine(l, <<>>) /\ UNCHANGED feed
    \/ Len(winners) < MaxWins /\ WinLine("Alice", <<>>, 3) /\ UNCHANGED feed
    \/ CompleteHand /\ UNCHANGED feed
    \/ Finish /\ UNCHANGED feed

SpecStud == InitHand /\ [][NextStud]_vars

(***************************************************************************)
(* The statements checked.                                                 *)
(***************************************************************************)
\* the Hand records of all tables' collections
CompletedHands ==
    UNION {{tables[i].v.ohh[j] : j \in 1..Len(tables[i].v.ohh)} : i \in 1..Len(tables)}

\* the step that ends a hand's text and files the hand
CompletionStep == pc = "lines" /\ pc' = "loop"

\* the hand of a one-hand specification has been completed
HandDone == pc \in {"loop", "done"} /\ idx = 2

\* r carries the reserved showdown id
IsShowdownId(r) == "id" \in DOMAIN r /\ r.id = SHOWDOWN_ROUND_ID

HasPostAction(r) ==
    \E j \in 1..Len(r.actions) :
        r.actions[j].action \in {"Post SB", "Post BB", "Post Ante", "Straddle"}

C2_ActionNumbersCountFromZero ==
    \A h \in CompletedHands :
        \A i \in 1..Len(h.rounds) :
            \A j \in 1..Len(h.rounds[i].actions) :
                h.rounds[i].actions[j].action_number = j - 1

\* C3: when the text of a flop-game hand with exactly one recorded winner
\* and no round of id 4 ends, the completed hand is the rounds of the text
\* followed by one round with id 4, street Showdown, no cards and the single
\* action "Mucks Cards", number 0, of that winner; it is the only round with
\* id 4, and it is what the table's collection receives.
C3_SoleWinnerGetsShowdownRound ==
    [][(/\ CompletionStep
        /\ ohh.game_type \in {"Holdem", "Omaha", "OmahaHiLo"}
        /\ Len(winners) = 1
        /\ ~\E i \in 1..Len(ohh.rounds) : IsShowdownId(ohh.rounds[i])
        /\ ~IsShowdownId(round))
       => LET rs == ohh'.rounds
              t  == Get(tables', ohh.table_name).ohh
          IN  /\ rs = Append(Append(ohh.rounds, round),
                             [id |-> 4, street |-> "Showdown", cards |-> <<>>,
                              actions |-> <<[action_number |-> 0,
                                             player_id |-> winners[1],
                                             action |-> "Mucks Cards"]>>])
              /\ Cardinality({i \in 1..Len(rs) : IsShowdownId(rs[i])}) = 1
              /\ t[Len(t)].rounds = rs]_vars

\* Bob alone won a Hold'em hand that saw a street marker but no round 4: the
\* completed hand ends with the showdown round crediting seat 2
C3_Witness ==
    /\ HandDone
    /\ ohh.game_type = "Holdem"
    /\ winners = <<2>>
    /\ roundNumber >= 1
    /\ Len(ohh.rounds) = roundNumber + 2
    /\ ohh.rounds[Len(ohh.rounds)].id = 4
    /\ ohh.rounds[Len(ohh.rounds)].actions[1].player_id = 2

\* C4 as stated: when the text of a flop-game hand with no round of id 4 and
\* zero or several recorded winners ends, a diagnostic is printed and the
\* completed hand's rounds are the rounds closed in the line loop followed by
\* the open round, once.
C4_NoRoundAppendedWithoutSoleWinner ==
    [][(/\ CompletionStep
        /\ ohh.game_type \in {"Holdem", "Omaha", "OmahaHiLo"}
        /\ Len(winners) # 1
        /\ ~\E i \in 1..Len(ohh.rounds) : IsShowdownId(ohh.rounds[i])
        /\ ~IsShowdownId(round))
       => /\ Len(diag') = Len(diag) + 1
          /\ ohh'.rounds = Append(ohh.rounds, round)]_vars

\* the current hand's Game line named a variant outside the variant table
VariantDiagnosed ==
    \E i \in 1..Len(diag) :
        diag[i].msg = "Game variant not found" /\ diag[i].hand = handNumber

\* C5 as stated: a hand whose Game line names an unknown variant is built to
\* the end; its post lines, which open round 0, raise no failure.
C5_UnknownVariantHandIsBuilt ==
    VariantDiagnosed => failure # "KeyError: firstRounds[ohh[GAME_TYPE]]"

\* C6 as stated: no line that names an unseated player, no post verb outside
\* the post table and no hand span without a Table line aborts the run.
C6_NoAnomalyAbortsTheRun ==
    failure \notin {"KeyError: playerIds[buttonPlayer]", "KeyError: playerIds[player]",
                    "KeyError: postTypes[type]", "KeyError: hands[handNumber][TABLE]"}

\* the handling of a "posts small & big blind" line of player p; the amount
\* the line prints is any amount
BothBlindsStep(p) ==
    /\ \E a \in 1..9 : PostLine(p, POSTS_BOTH_BLINDS, a)
    /\ pc' = "lines"

\* C7: a "posts small & big blind" line appends exactly two actions of the
\* posting player to the active round, "Post SB" then "Post BB", numbered n
\* and n + 1 (n the action counter, 0 when the line opens round 0), with the
\* small-blind and big-blind amounts of the Game line and not the amount
\* printed on the line; the counter is n + 2 afterwards.
C7_BothBlindsPostTwoActions ==
    [][\A p \in Names :
        BothBlindsStep(p) =>
            LET n   == IF currentRound = None THEN 0 ELSE actionNumber
                old == Len(round.actions)
                new == round'.actions
                pid == Get(playerIds, p)
            IN  /\ Len(new) = old + 2
                /\ SubSeq(new, 1, old) = round.actions
                /\ new[old + 1] = [action_number |-> n, player_id |-> pid,
                                   amount |-> ohh.small_blind_amount,
                                   action |-> "Post SB"]
                /\ new[old + 2] = [action_number |-> n + 1, player_id |-> pid,
                                   amount |-> ohh.big_blind_amount,
                                   action |-> "Post BB"]
                /\ actionNumber' = n + 2
                /\ ohh' = ohh]_vars

\* the open round ends with the two actions of a both-blinds line that was
\* not the first action of the round: numbers 1 and 2, amounts 0.1 and 0.2
\* although the line printed 0.5
C7_Witness ==
    /\ pc = "lines"
    /\ actionNumber = 3
    /\ Len(round.actions) = 3
    /\ round.actions[2].action = "Post SB"
    /\ round.actions[2].amount = Float(1)
    /\ round.actions[3].action = "Post BB"
    /\ round.actions[3].action_number = 2
    /\ round.actions[3].amount = Float(2)

\* sum(w.win_amount for w in wins), as Python adds floats from the left
RECURSIVE FSumWins(_)
FSumWins(wins) ==
    IF wins = <<>> THEN FZero
    ELSE FAdd(FSumWins(SubSeq(wins, 1, Len(wins) - 1)), wins[Len(wins)].win_amount)

\* C8 as stated: in every pot of every completed hand the win amounts of the
\* winner entries sum to the pot's amount.
C8_WinAmountsSumToPotAmount ==
    \A h \in CompletedHands :
        \A i \in 1..Len(h.pots) : FSumWins(h.pots[i].player_wins) = h.pots[i].amount

\* C9 as stated: the pot list of a completed hand is in increasing order of
\* pot number, whatever the order of the win lines.
C9_PotsInPotNumberOrder ==
    \A h \in CompletedHands :
        \A i, j \in 1..Len(h.pots) : i < j => h.pots[i].number < h.pots[j].number

TimeOf(h) == Get(hands, h).datetime

\* C10: the hand loop visits every hand once, in ascending order of
\* timestamp whatever the order in the input (a hand with an earlier
\* timestamp is visited before one with a later timestamp, even when it was
\* read after it), and after the pass a table's latest hand id is that of a
\* hand no other hand of the table is later than.
C10_HandsVisitedInTimestampOrder ==
    /\ pc \in {"loop", "lines", "done"} =>
          /\ Len(order) = Len(hands)
          /\ \A h \in {hands[i].k : i \in 1..Len(hands)} :
                \E i \in 1..Len(order) : order[i] = h
          /\ \A i, j \in 1..Len(order) : TimeOf(order[i]) < TimeOf(order[j]) => i < j
    /\ pc = "done" =>
          \A i \in 1..Len(hands) :
              LET t == Get(tables, hands[i].v.table)
              IN  /\ TimeOf(hands[i].k) <= TimeOf(t.last)
                  /\ TimeOf(hands[i].k) <= t.latest
                  /\ t.latest = TimeOf(t.last)

\* hand 1-1 (time 2) was read before hand 1-2 (time 1), both of table T1: the
\* pass visited 1-2 first and left 1-1 as the table's latest hand
C10_Witness ==
    /\ pc = "done"
    /\ Keys(hands) = <<"1-1", "1-2">>
    /\ TimeOf("1-1") = 2
    /\ TimeOf("1-2") = 1
    /\ Get(hands, "1-1").table = "T1"
    /\ Get(hands, "1-2").table = "T1"
    /\ order = <<"1-2", "1-1">>
    /\ Get(tables, "T1").last = "1-1"
    /\ Get(tables, "T1").ohh[1].game_number = "1-2"

\* C12 as stated: the hand whose text is the six lines Seat 1: Alice (100.00),
\* Seat 2: Bob (100.00), Alice posts small blind 1.00, Bob posts big blind
\* 2.00, ** Flop ** [2h 7c Qs], Alice folds is built, without failure, into
\* a hand with players Alice (seat 1) and Bob (seat 2), stack 100.00 each, a
\* round 0 holding exactly the two post actions and a round 1 with cards
\* 2h 7c Qs holding exactly one Fold action of Alice.
C12_ExampleHandIsBuilt ==
    feed.text = ExampleText =>
        /\ pc # "aborted"
        /\ HandDone =>
              /\ ohh.players =
                    <<[id |-> 1, seat |-> 1, name |-> "Alice", display |-> "Alice",
                       starting_stack |-> Float(1000)],
                      [id |-> 2, seat |-> 2, name |-> "Bob", display |-> "Bob",
                       starting_stack |-> Float(1000)]>>
              /\ Len(ohh.rounds) >= 2
              /\ ohh.rounds[1].id = 0
              /\ ohh.rounds[1].actions =
                    <<[action_number |-> 0, player_id |-> 1, amount |-> Float(10),
                       action |-> "Post SB"],
                      [action_number |-> 1, player_id |-> 2, amount |-> Float(20),
                       action |-> "Post BB"]>>
              /\ ohh.rounds[2].id = 1
              /\ ohh.rounds[2].cards = <<"2h", "7c", "Qs">>
              /\ ohh.rounds[2].actions =
                    <<[action_number |-> 0, player_id |-> 1, action |-> "Fold"]>>

\* what a run leaves per table: the hand count, the latest timestamp and hand
\* id and the sequence of Hand records, the tables taken as a set
Outcome(ts) == {[table |-> ts[i].k, result |-> ts[i].v] : i \in 1..Len(ts)}

\* C11 as stated: the run on the files in the order B, A ends as the run on
\* the files in the order A, B ended, with the same Hand records, per-table
\* count, latest timestamp, latest hand id and hand sequence, also when two
\* hands carry equal timestamps or both files hold the same hand id.
C11_FileOrderIsIrrelevant ==
    (feed.pass = 2 /\ pc = "done") => Outcome(tables) = Outcome(feed.first)

\* C13 as stated: a header line whose timestamp text is not a valid datetime
\* is skipped and raises no failure.
C13_BadHeaderIsSkipped == failure # "ValueError: strptime"

\* the hand ids of the header lines of the input files
InputHandIds ==
    {Input(feed)[i].who :
        i \in {j \in 1..Len(Input(feed)) : Input(feed)[j].kind = "header"}}

\* where the Hand records of hand id lie: table and place in its collection
RecordsOf(id) ==
    {p \in UNION {{<<i, j>> : j \in 1..Len(tables[i].v.ohh)} : i \in 1..Len(tables)} :
        tables[p[1]].v.ohh[p[2]].game_number = id}

\* C14 as stated: after the pass every hand id of a header line of the input
\* has exactly one Hand record, in the collection of one table.
C14_OneRecordPerHandId ==
    pc = "done" => \A id \in InputHandIds : Cardinality(RecordsOf(id)) = 1

\* the step in which the splitter reads line l
Reads(l) ==
    /\ pc = "split"
    /\ feed.at <= Len(Input(feed))
    /\ Input(feed)[feed.at] = l
    /\ feed'.at = feed.at + 1

\* C18 as stated: every header line read starts a new RawHand with the id
\* and the timestamp of the line, also when no blank line ended the span of
\* the hand before it.
C18_EveryHeaderStartsARawHand ==
    [][\A id \in HandIds, t \in Times :
          Reads(Header(id, t)) =>
              /\ Has(hands', id)
              /\ Get(hands', id) = [datetime |-> t]
              /\ span' = id]_vars

\* C15 as stated: in every completed hand every round whose street label is
\* Showdown carries the reserved id 4.
C15_ShowdownRoundsCarryId4 ==
    \A h \in CompletedHands :
        \A i \in 1..Len(h.rounds) :
            ("street" \in DOMAIN h.rounds[i] /\ h.rounds[i].street = "Showdown")
                => h.rounds[i].id = SHOWDOWN_ROUND_ID

\* C16 as stated: a hole-cards marker consumed when no round is active opens
\* round id 0 with the first street label of the hand's variant, resets the
\* action counter to 0 and emits no action.
C16_HoleCardsMarkerOpensRound0 ==
    [][(/\ Consumes(HoleCardsLine)
        /\ currentRound = None
        /\ ohh.game_type \in {"Holdem", "Omaha", "OmahaHiLo", "Stud", "StudHiLo"})
       => /\ pc' = "lines"
          /\ currentRound' = (IF ohh.game_type \in {"Stud", "StudHiLo"}
                              THEN "Third Street" ELSE "Preflop")
          /\ "id" \in DOMAIN round' /\ round'.id = 0
          /\ "street" \in DOMAIN round' /\ round'.street = currentRound'
          /\ round'.actions = round.actions
          /\ actionNumber' = 0]_vars

\* the street label the marker label stands for
MappedStreet(label) ==
    CASE label = "Flop" -> "Flop"
      [] label = "6th Street" -> "Sixth Street"
      [] label = "Show Down" -> "Showdown"

\* C17: a street marker (Flop, 6th Street, Show Down) consumed while a round
\* is active appends the current round, as it stands, once to the hand's
\* rounds, and opens a round whose id is one more, with the mapped street
\* label, no actions and the marker's card tokens in order (none when the
\* marker has no bracketed list); the action counter is 0 afterwards;
\* header fields, players, pots and winners are unchanged and no failure is
\* raised.
C17_StreetMarkerClosesAndOpensARound ==
    [][\A l \in StreetLines :
          (Consumes(l) /\ currentRound # None) =>
              /\ pc' = "lines"
              /\ failure' = None
              /\ ohh' = [ohh EXCEPT !.rounds = Append(ohh.rounds, round)]
              /\ round' = [id |-> round.id + 1, street |-> MappedStreet(l.what),
                           cards |-> l.cards, actions |-> <<>>]
              /\ roundNumber' = roundNumber + 1
              /\ actionNumber' = 0
              /\ players' = players
              /\ playerIds' = playerIds
              /\ pots' = pots
              /\ winners' = winners]_vars

\* the flop was consumed after a check in round 1, itself opened by a
\* marker: round 1 is closed with its action and round 2 holds the three
\* flop cards and no action
C17_Witness ==
    /\ pc = "lines"
    /\ feed.text = <<SeatAlice, SixthStreetLine, AliceChecks, FlopLine>>
    /\ feed.at = 5
    /\ Len(ohh.rounds) = 2
    /\ ohh.rounds[2].street = "Sixth Street"
    /\ Len(ohh.rounds[2].actions) = 1
    /\ round = [id |-> 2, street |-> "Flop", cards |-> <<"2h", "7c", "Qs">>,
                actions |-> <<>>]
    /\ actionNumber = 0

\* C19: an add-on line appends to the open round an "Added Chips" action of
\* the named player, numbered by the action counter, which it increments,
\* exactly when a round is active and the player has a seat; otherwise the
\* round and the counter are unchanged; in both cases rounds closed, pots,
\* winners and header are unchanged and no failure is raised.
C19_AddOnOnlyInARoundOfASeatedPlayer ==
    [][\A l \in {AliceAddsOn, BobAddsOn} :
          Consumes(l) =>
              /\ pc' = "lines"
              /\ failure' = None
              /\ IF currentRound # None
                    /\ \E i \in 1..Len(players) : players[i].name = l.who
                 THEN /\ round' = [round EXCEPT !.actions =
                                      Append(@, [action_number |-> actionNumber,
                                                 player_id |-> Get(playerIds, l.who),
                                                 amount |-> Float(l.nums[1]),
                                                 action |-> "Added Chips"])]
                      /\ actionNumber' = actionNumber + 1
                 ELSE /\ round' = round
                      /\ actionNumber' = actionNumber
              /\ ohh' = ohh
              /\ pots' = pots
              /\ winners' = winners
              /\ roundNumber' = roundNumber
              /\ currentRound' = currentRound]_vars

\* Alice's first add-on came before any round was active and left no action,
\* her second came in the round the flop opened and is its action number 0
C19_Witness ==
    /\ pc = "lines"
    /\ feed.text = <<SeatAlice, AliceAddsOn, FlopLine, AliceAddsOn>>
    /\ feed.at = 5
    /\ ohh.rounds = <<[cards |-> <<>>, actions |-> <<>>]>>
    /\ round.actions = <<[action_number |-> 0, player_id |-> 1, amount |-> Float(50),
                          action |-> "Added Chips"]>>
    /\ actionNumber = 1

\* a seat line or a post line was consumed before the line the reader is at
SeatOrPostConsumed ==
    \E k \in 1..(feed.at - 1) : feed.text[k].kind \in {"seat", "post"}

\* C20: a Site or Game line consumed after a seat line or a post line of the
\* hand leaves the whole header (site name, game type, bet type, blinds,
\* ante) unchanged, emits no action, prints nothing and raises no failure;
\* before the first seat and post line a Site line sets the site name and a
\* Game line the game type.
C20_HeaderLinesOnlyBeforeSeats ==
    [][\A l \in HeaderLines :
          Consumes(l) =>
              /\ pc' = "lines"
              /\ failure' = None
              /\ round' = round
              /\ actionNumber' = actionNumber
              /\ IF SeatOrPostConsumed
                 THEN ohh' = ohh /\ diag' = diag
                 ELSE IF l.kind = "site"
                 THEN ohh' = [ohh EXCEPT !.site_name = l.what, !.network_name = l.what]
                 ELSE ohh'.game_type = (IF l.what = "Omaha" THEN "Omaha" ELSE "Holdem")]_vars

\* a Site line and an Omaha Game line came after Alice's seat line: the hand
\* still has no site name and is the Hold'em hand its first line made it
C20_Witness ==
    /\ pc = "lines"
    /\ feed.text = <<GameHoldem, SeatAlice, SiteTwo, GameOmaha>>
    /\ feed.at = 5
    /\ ohh.site_name = ""
    /\ ohh.game_type = "Holdem"
    /\ ohh.bet_limit = [bet_type |-> "NL"]
    /\ ohh.small_blind_amount = Float(1)

\* C21: when the text of a hand whose game type is Stud, StudHiLo or unset
\* ends, completion raises no failure, prints nothing and appends no round:
\* the hand's rounds are the rounds closed in the line loop followed by the
\* open round, once, whatever the number of recorded winners and whether or
\* not a round has id 4; that hand is what the table's collection receives.
C21_StudCompletionAppendsNoRound ==
    [][(pc = "lines" /\ ohh.game_type \in {"Stud", "StudHiLo", ""})
       => /\ failure' # "KeyError: round[ID]"
          /\ CompletionStep =>
                /\ ohh'.rounds = Append(ohh.rounds, round)
                /\ diag' = diag
                /\ LET t == Get(tables', ohh.table_name).ohh
                   IN  t[Len(t)] = ohh' /\ Len(t) = Len(Get(tables, ohh.table_name).ohh) + 1]_vars

\* a completed Stud hand with one street marker, a sole winner and no round
\* of id 4: two rounds, no showdown round, nothing printed
C21_Witness ==
    /\ HandDone
    /\ ohh.game_type = "Stud"
    /\ winners = <<1>>
    /\ roundNumber = 1
    /\ Len(ohh.rounds) = 2
    /\ ~\E i \in 1..2 : IsShowdownId(ohh.rounds[i])
    /\ diag = <<>>

\* the hands the pass has processed, in the order of processing
ProcessedHands == SubSeq(order, 1, idx - 1)

\* the processed hands whose RawHand names table name
ProcessedOf(name) ==
    {k \in 1..Len(ProcessedHands) : Get(hands, ProcessedHands[k]).table = name}

\* the table bookkeeping agrees with the hands processed so far
TablesAgreeWithProcessedHands ==
    pc \in {"loop", "done"} =>
        \A i \in 1..Len(tables) :
            LET name == tables[i].k
                t    == tables[i].v
                mine == ProcessedOf(name)
            IN  /\ t.count = Len(t.ohh)
                /\ t.count = Cardinality(mine)
                /\ [j \in 1..Len(t.ohh) |-> t.ohh[j].table_name] = [j \in 1..Len(t.ohh) |-> name]
                /\ mine # {} =>
                      /\ "last" \in DOMAIN t
                      /\ \E k \in mine : ProcessedHands[k] = t.last
                      /\ t.latest = TimeOf(t.last)
                      /\ \A k \in mine : TimeOf(ProcessedHands[k]) <= t.latest
                /\ mine = {} => (t.latest = "" /\ "last" \notin DOMAIN t)

\* every table registered stays registered, its count not below what it was
TablesOnlyGrow ==
    \A i \in 1..Len(tables) :
        /\ i <= Len(tables')
        /\ tables'[i].k = tables[i].k
        /\ tables'[i].v.count >= tables[i].v.count
        /\ Len(tables'[i].v.ohh) >= Len(tables[i].v.ohh)

\* C22: whenever the pass stands between two hands or has ended, every
\* table's hand count is the number of Hand records in its collection and
\* the number of processed hands whose RawHand names it, and its latest
\* timestamp and hand id are those of a processed hand of the table that no
\* other processed hand of the table is later than; no step lowers a
\* table's count or removes a registered table.
C22_TableBookkeeping ==
    []TablesAgreeWithProcessedHands /\ [][TablesOnlyGrow]_vars

\* the pass ended with two hands filed under T1, the later of them read
\* first, and with T2, named by a Table line that a second Table line of
\* the same span overrode, still registered with no hand
C22_Witness ==
    /\ pc = "done"
    /\ Keys(tables) = <<"T2", "T1">>
    /\ Get(tables, "T2").count = 0
    /\ Get(tables, "T2").ohh = <<>>
    /\ Get(tables, "T1").count = 2
    /\ Len(Get(tables, "T1").ohh) = 2
    /\ Keys(hands) = <<"1-1", "1-2">>
    /\ TimeOf("1-1") = 2
    /\ TimeOf("1-2") = 1
    /\ Get(tables, "T1").last = "1-1"
    /\ Get(tables, "T1").latest = 2

\* the player named name has a seat in the hand
Seated(name) == \E i \in 1..Len(players) : players[i].name = name

\* the pot a win line is about when the accumulator does not hold it yet
AbsentPot(n) == [number |-> n, amount |-> FZero, rake |-> FZero, player_wins |-> <<>>]

\* C23: a win line of a seated player P for pot n (0 when the line prints no
\* pot number) with amount a raises no failure; pot n, taken with amount 0,
\* rake 0 and no entries if absent, has afterwards its amount plus a, its
\* rake, and P's entry, taken with win amount 0 if absent, with its win
\* amount plus a; P's id is appended to the winners; the other pots, the
\* order of the pots, the other players' entries in pot n, the rounds, the
\* header and the action counter are unchanged.
C23_WinLineAccumulates ==
    [][\A l \in WinLines :
          (Consumes(l) /\ Seated(l.who)) =>
              LET n    == IF Len(l.nums) = 2 THEN l.nums[2] ELSE 0
                  a    == Float(l.nums[1])
                  pid  == SeatOf[l.who]
                  was  == IF Has(pots, n) THEN Get(pots, n) ELSE AbsentPot(n)
                  won  == IF Has(was.player_wins, pid)
                          THEN Get(was.player_wins, pid).win_amount ELSE FZero
                  now  == Get(pots', n)
              IN  /\ pc' = "lines"
                  /\ failure' = None
                  /\ Keys(pots') = (IF Has(pots, n) THEN Keys(pots) ELSE Append(Keys(pots), n))
                  /\ now.number = n
                  /\ now.rake = was.rake
                  /\ now.amount = FAdd(was.amount, a)
                  /\ Keys(now.player_wins) =
                        (IF Has(was.player_wins, pid) THEN Keys(was.player_wins)
                         ELSE Append(Keys(was.player_wins), pid))
                  /\ Get(now.player_wins, pid) =
                        [player_id |-> pid, win_amount |-> FAdd(won, a),
                         contributed_rake |-> FZero]
                  /\ \A i \in 1..Len(was.player_wins) :
                        was.player_wins[i].k # pid => now.player_wins[i] = was.player_wins[i]
                  /\ \A i \in 1..Len(pots) : pots[i].k # n => pots'[i] = pots[i]
                  /\ winners' = Append(winners, pid)
                  /\ ohh' = ohh
                  /\ round' = round
                  /\ roundNumber' = roundNumber
                  /\ actionNumber' = actionNumber
                  /\ currentRound' = currentRound
                  /\ players' = players]_vars

\* Bob won 0.2 of pot 1, then Alice 0.3 of pot 1: one pot, of amount
\* 0.2 + 0.3, with Bob's entry as it was and Alice's new entry after it, and
\* the winners in line order
C23_Witness ==
    /\ pc = "lines"
    /\ feed.text = <<SeatAlice, SeatBob, BobWinsPot1, AliceWinsPot1>>
    /\ feed.at = 5
    /\ Keys(pots) = <<1>>
    /\ pots[1].v.amount = FAdd(Float(2), Float(3))
    /\ pots[1].v.player_wins =
          <<[k |-> 2, v |-> [player_id |-> 2, win_amount |-> Float(2),
                             contributed_rake |-> FZero]],
            [k |-> 1, v |-> [player_id |-> 1, win_amount |-> Float(3),
                             contributed_rake |-> FZero]]>>
    /\ winners = <<2, 1>>

\* the timestamp of the RawHand a Hand record was built from
RecordTime(h) == TimeOf(h.game_number)

\* C24: in every state of the pass the Hand records of every table's
\* collection lie in non-decreasing order of their hands' timestamps,
\* whatever the order in which the splitter read the hands.
C24_CollectionsInTimestampOrder ==
    \A i \in 1..Len(tables) :
        \A j, k \in 1..Len(tables[i].v.ohh) :
            j < k => RecordTime(tables[i].v.ohh[j]) <= RecordTime(tables[i].v.ohh[k])

\* both hands of T1 are filed and the pass has not ended: hand 1-2, read
\* second but stamped earlier, lies before hand 1-1 in the collection
C24_Witness ==
    /\ pc = "loop"
    /\ idx = 3
    /\ Keys(hands) = <<"1-1", "1-2">>
    /\ TimeOf("1-1") > TimeOf("1-2")
    /\ Keys(tables) = <<"T1">>
    /\ [j \in 1..Len(tables[1].v.ohh) |-> tables[1].v.ohh[j].game_number] = <<"1-2", "1-1">>

\* the step in which the hand loop takes a hand
HandStartStep == pc = "loop" /\ pc' = "lines"

\* what the hand loop has assigned when the line loop starts
FreshHandState ==
    /\ currentRound' = None
    /\ roundNumber' = 0
    /\ actionNumber' = 0
    /\ processedSeats' = FALSE
    /\ cardsDealt' = FALSE
    /\ players' = <<>>
    /\ playerIds' = <<>>
    /\ winners' = <<>>
    /\ pots' = <<>>
    /\ round' = [cards |-> <<>>, actions |-> <<>>]
    /\ ohh'.players = <<>> /\ ohh'.rounds = <<>> /\ ohh'.pots = <<>>
    /\ ohh'.game_type = "" /\ ohh'.site_name = ""
    /\ ohh'.bet_limit = <<>> /\ ohh'.dealer_seat = 1
    /\ ohh'.game_number = handNumber'

IsOfSecondHand(d) == d.hand = "1-2"

\* hand 1-2 processed alone ended as it ended behind hand 1-1: the same
\* Hand record and diagnostics, or the same failure
SecondHandSameAlone ==
    (feed.pass = 2 /\ pc \in {"done", "aborted"} /\ feed.first[1].idx >= 2) =>
        /\ pc = feed.first[1].pc
        /\ failure = feed.first[1].failure
        /\ SelectSeq(diag, IsOfSecondHand) = SelectSeq(feed.first[1].diag, IsOfSecondHand)
        /\ pc = "done" => Get(tables, "T1").ohh = <<feed.first[1].filed[2]>>

\* C25: every step that starts a hand leaves the current round None, round
\* number and action number 0, the phase flags cleared, players, player-id
\* map, winners and pot accumulator empty and the record's header at its
\* defaults, whatever the hand before left; and a hand processed behind
\* another hand yields the Hand record, the diagnostics or the failure it
\* yields when it is processed alone.
C25_NoCarryOverBetweenHands ==
    []SecondHandSameAlone /\ [][HandStartStep => FreshHandState]_vars

\* hand 1-2, a Hold'em hand with a post and one win, was processed behind
\* the busy hand 1-1 and then alone, and both passes ended: its record has
\* the round of the post and the showdown round of its own sole winner
C25_Witness ==
    /\ feed.pass = 2
    /\ pc = "done"
    /\ feed.texts = <<BusyText, <<GameHoldem, SeatAlice, AlicePostsSmall, AliceWins>>>>
    /\ feed.first[1].pc = "done"
    /\ Len(feed.first[1].filed) = 2
    /\ Len(ohh.rounds) = 2
    /\ ohh.rounds[1].id = 0
    /\ ohh.rounds[1].actions[1].action_number = 0
    /\ ohh.rounds[2].id = 4
    /\ Len(ohh.pots) = 1
    /\ ohh.pots[1].amount = Float(1)
    /\ diag = <<>>

\* every win line of the hand named the same player
OnePlayerWonAll == winners # <<>> /\ \A i \in 1..Len(winners) : winners[i] = winners[1]

\* C26 as stated: when the text of a flop-game hand with no round of id 4
\* ends and every win line named the same player, on one line or on several,
\* completion prints nothing and the completed hand is the rounds of the
\* text followed by one round with id 4, street Showdown, no cards and the
\* single action "Mucks Cards", number 0, of that player.
C26_OnePlayerWinningSeveralPotsIsSoleWinner ==
    [][(/\ CompletionStep
        /\ ohh.game_type \in {"Holdem", "Omaha", "OmahaHiLo"}
        /\ OnePlayerWonAll
        /\ ~\E i \in 1..Len(ohh.rounds) : IsShowdownId(ohh.rounds[i])
        /\ ~IsShowdownId(round))
       => /\ diag' = diag
          /\ ohh'.rounds = Append(Append(ohh.rounds, round),
                                  [id |-> 4, street |-> "Showdown", cards |-> <<>>,
                                   actions |-> <<[action_number |-> 0,
                                                  player_id |-> winners[1],
                                                  action |-> "Mucks Cards"]>>])]_vars
====
